---- MODULE Spec2Model ----
(***************************************************************************)
(* Model of kbd_maker.py: the encoder create_keyboard_layout, which turns  *)
(* a layout name and three scan-code maps into the 420-byte "KBLY" file.   *)
(*                                                                         *)
(* Python values are modelled as follows.                                  *)
(*   - a str is the sequence of its code points;                           *)
(*   - a bytes object is a sequence of numbers in 0..255;                  *)
(*   - a map element is a record [kind, chars, n]: kind "str" carries the  *)
(*     code points in chars, kind "int" the value in n, kind "other" is    *)
(*     any object that is neither a str nor an int;                        *)
(*   - a function result is a record [exc, val]: the exception raised      *)
(*     (NoExc when it returned) and the value returned;                    *)
(*   - an exception is a record [type, msg, x, start]: msg is the fixed    *)
(*     text of the message, x the element formatted into it, start the     *)
(*     position a UnicodeEncodeError reports.                              *)
(***************************************************************************)
EXTENDS Integers, Sequences, FiniteSets, TLC

VARIABLES pc, fs, call, result, stdout

vars == <<pc, fs, call, result, stdout>>

----------------------------------------------------------------------------
(* Bounds of the explored inputs *)

\* generated maps have up to MapSize + MaxOver entries
MaxOver == 2
\* generated names have up to NameMax + MaxNameOver characters
MaxNameOver == 9

----------------------------------------------------------------------------
(* Program constants *)

MapSize == 128
NameMax == 31
NameField == 32
magic == 1262636121

----------------------------------------------------------------------------
(* Generic helpers *)

SetMin(S) == CHOOSE m \in S : \A o \in S : m <= o

Minimum(a, b) == IF a <= b THEN a ELSE b

\* [0]*n and b'\0'*n : a non-positive n gives the empty sequence
Zeros(n) == [i \in 1..n |-> 0]

\* Python slice s[:n] for n >= 0
Take(s, n) == SubSeq(s, 1, Minimum(n, Len(s)))

\* Python slice s[-n:] for n > 0
TakeLast(s, n) == SubSeq(s, Len(s) - Minimum(n, Len(s)) + 1, Len(s))

----------------------------------------------------------------------------
(* Map elements *)

Ch(c) == [kind |-> "str", chars |-> <<c>>, n |-> 0]
Str(s) == [kind |-> "str", chars |-> s, n |-> 0]
Num(v) == [kind |-> "int", chars |-> <<>>, n |-> v]
Other == [kind |-> "other", chars |-> <<>>, n |-> 0]

----------------------------------------------------------------------------
(* Exceptions *)

NoExc == [type |-> "None", msg |-> "", x |-> Other, start |-> 0]

ValueError(m, e) == [type |-> "ValueError", msg |-> m, x |-> e, start |-> 0]

UnicodeEncodeError(s, at) ==
    [type |-> "UnicodeEncodeError", msg |-> "'ascii' codec can't encode character",
     x |-> Str(s), start |-> at]

TypeError(m) == [type |-> "TypeError", msg |-> m, x |-> Other, start |-> 0]

OSError(m) == [type |-> "OSError", msg |-> m, x |-> Other, start |-> 0]

Returned(v) == [exc |-> NoExc, val |-> v]

Raised(e) == [exc |-> e, val |-> <<>>]

----------------------------------------------------------------------------
(* to_byte_list *)

\* the special_chars dictionary, keyed by code point
special_chars ==
    (8364 :> 128) @@ (241 :> 241) @@ (231 :> 231) @@ (209 :> 209) @@ (199 :> 199) @@
    (183 :> 183) @@ (191 :> 191) @@ (161 :> 161) @@ (180 :> 180) @@ (168 :> 168)

ord(x) == x.chars[1]

\* special_chars.get(x, ord(x)) with the table dropped
byte_val_ord_only(x) == ord(x)

\* special_chars.get(x, ord(x))
byte_val(x) ==
    IF ord(x) \in DOMAIN special_chars THEN special_chars[ord(x)] ELSE ord(x)

\* the checks of the loop body with the length check of a str dropped
check_no_len(x) ==
    IF x.kind = "str"
    THEN IF Len(x.chars) = 0
         THEN ValueError("Cada elemento debe ser un caracter", x)
         ELSE IF byte_val(x) > 255
              THEN ValueError("Caracter excede rango de bytes (0-255)", x)
              ELSE NoExc
    ELSE IF x.kind = "int"
         THEN IF x.n < 0 \/ x.n > 255
              THEN ValueError("Valor entero fuera de rango (0-255)", x)
              ELSE NoExc
         ELSE ValueError("Elemento invalido en el mapa", x)

\* the exception the loop body raises for element x, NoExc when it appends
check(x) ==
    IF x.kind = "str"
    THEN IF Len(x.chars) # 1
         THEN ValueError("Cada elemento debe ser un caracter", x)
         ELSE IF byte_val(x) > 255
              THEN ValueError("Caracter excede rango de bytes (0-255)", x)
              ELSE NoExc
    ELSE IF x.kind = "int"
         THEN IF x.n < 0 \/ x.n > 255
              THEN ValueError("Valor entero fuera de rango (0-255)", x)
              ELSE NoExc
         ELSE ValueError("Elemento invalido en el mapa", x)

\* the value the loop body appends for a valid element x
appended(x) == IF x.kind = "str" THEN byte_val(x) ELSE x.n

\* the loop with the position of the element added to the error
loop_with_position(lst) ==
    LET bad == {i \in 1..Len(lst) : check(lst[i]) # NoExc}
    IN  IF bad # {}
        THEN Raised([check(lst[SetMin(bad)]) EXCEPT !.start = SetMin(bad)])
        ELSE Returned([i \in 1..Len(lst) |-> appended(lst[i])])

\* the loop over lst: raises at the first element that fails a check
loop(lst) ==
    LET bad == {i \in 1..Len(lst) : check(lst[i]) # NoExc}
    IN  IF bad # {}
        THEN Raised(check(lst[SetMin(bad)]))
        ELSE Returned([i \in 1..Len(lst) |-> appended(lst[i])])

\* to_byte_list returning the padded list without the [:128] slice
to_byte_list_no_slice(lst) ==
    LET l == loop(lst)
    IN  IF l.exc # NoExc THEN l ELSE Returned(l.val \o Zeros(MapSize))

\* to_byte_list keeping the last 128 entries of the padded list
to_byte_list_tail(lst) ==
    LET l == loop(lst)
    IN  IF l.exc # NoExc THEN l
        ELSE Returned(TakeLast(l.val \o Zeros(MapSize), MapSize))

\* to_byte_list slicing the input before the loop
to_byte_list_slice_first(lst) ==
    LET l == loop(Take(lst, MapSize))
    IN  IF l.exc # NoExc THEN l
        ELSE Returned(Take(l.val \o Zeros(MapSize), MapSize))

to_byte_list(lst) ==
    LET l == loop(lst)
    IN  IF l.exc # NoExc THEN l
        ELSE Returned(Take(l.val \o Zeros(MapSize), MapSize))

\* the bytes(...) constructor applied to a list of ints
bytes(l) ==
    IF \E i \in 1..Len(l) : l[i] < 0 \/ l[i] > 255
    THEN Raised(ValueError("bytes must be in range(0, 256)", Other))
    ELSE Returned(l)

\* bytes(to_byte_list(m))
map_bytes(m) ==
    LET l == to_byte_list(m)
    IN  IF l.exc # NoExc THEN l ELSE bytes(l.val)

----------------------------------------------------------------------------
(* The altgr argument: None or a list *)

PyNone == [t |-> "NoneType", items |-> <<>>]
PyList(s) == [t |-> "list", items |-> s]

\* truth value of the altgr argument
truthy(a) == a.t = "list" /\ Len(a.items) > 0

\* the altgr line without the conditional
altgr_bytes_always(a) ==
    IF a.t = "NoneType"
    THEN Raised(TypeError("'NoneType' object is not iterable"))
    ELSE map_bytes(a.items)

altgr_bytes(a) ==
    IF truthy(a) THEN map_bytes(a.items) ELSE bytes(Zeros(MapSize))

----------------------------------------------------------------------------
(* Name field and header *)

\* name.encode('ascii')
encode_ascii(name) ==
    LET bad == {i \in 1..Len(name) : name[i] > 127}
    IN  IF bad # {}
        THEN Raised(UnicodeEncodeError(name, SetMin(bad) - 1))
        ELSE Returned(name)

\* the name field without the [:31] slice
name_field_no_slice(enc) ==
    LET nb == enc \o <<0>>
    IN  nb \o Zeros(NameField - Len(nb))

\* enc[:31] + b'\0', then padded with b'\0' * (32 - len)
name_field(enc) ==
    LET nb == Take(enc, NameMax) \o <<0>>
    IN  nb \o Zeros(NameField - Len(nb))

\* struct.pack('>I', v)
pack_I_big(v) == [i \in 1..4 |-> (v \div (256 ^ (4 - i))) % 256]

\* struct.pack('<I', v)
pack_I(v) == [i \in 1..4 |-> (v \div (256 ^ (i - 1))) % 256]

----------------------------------------------------------------------------
(* create_keyboard_layout up to the open: the data it packs, or the        *)
(* exception of the first statement that raises                            *)

pack_data(name, normal_map, shift_map, altgr_map) ==
    LET normal_bytes == map_bytes(normal_map)
    IN  IF normal_bytes.exc # NoExc THEN normal_bytes ELSE
    LET shift_bytes == map_bytes(shift_map)
    IN  IF shift_bytes.exc # NoExc THEN shift_bytes ELSE
    LET altgr_b == altgr_bytes(altgr_map)
    IN  IF altgr_b.exc # NoExc THEN altgr_b ELSE
    LET enc == encode_ascii(name)
    IN  IF enc.exc # NoExc THEN enc ELSE
        Returned(pack_I(magic) \o name_field(enc.val) \o normal_bytes.val
                 \o shift_bytes.val \o altgr_b.val)

----------------------------------------------------------------------------
(* The file system: a file is absent or holds bytes *)

Absent == [exists |-> FALSE, data |-> <<>>]
File(d) == [exists |-> TRUE, data |-> d]

\* what the I/O may do: succeed, fail in open, or fail in write after the
\* file was created and truncated and the first part bytes were written
IoOutcomes ==
    {[kind |-> "ok", part |-> 0], [kind |-> "open fails", part |-> 0],
     [kind |-> "write fails", part |-> 0], [kind |-> "write fails", part |-> 36]}

\* the with block, with the open moved before the name is encoded
persist_open_early(files, filename, packed, io) ==
    IF packed.exc.type = "UnicodeEncodeError"
    THEN [files EXCEPT ![filename] = File(<<>>)]
    ELSE IF packed.exc # NoExc \/ io.kind = "open fails" THEN files
    ELSE IF io.kind = "write fails"
         THEN [files EXCEPT ![filename] = File(Take(packed.val, io.part))]
         ELSE [files EXCEPT ![filename] = File(packed.val)]

\* open(filename, 'wb') and f.write(data): reached only when nothing raised
persist(files, filename, packed, io) ==
    IF packed.exc # NoExc \/ io.kind = "open fails" THEN files
    ELSE IF io.kind = "write fails"
         THEN [files EXCEPT ![filename] = File(Take(packed.val, io.part))]
         ELSE [files EXCEPT ![filename] = File(packed.val)]

\* the exception the call ends with, NoExc when it returns
outcome(packed, io) ==
    IF packed.exc # NoExc THEN packed.exc
    ELSE IF io.kind = "open fails" THEN OSError("open")
    ELSE IF io.kind = "write fails" THEN OSError("write")
    ELSE NoExc

\* the line print(...) writes: name, filename and len(data)
printed(name, filename, data) ==
    [name |-> name, filename |-> filename, nbytes |-> Len(data)]

----------------------------------------------------------------------------
(* The sample layout of the module and the call under __main__ *)

normal_cps ==
    <<27, 49, 50, 51, 52, 53, 54, 55, 56, 57, 48, 32, 161, 8, 9, 113, 119, 101, 114, 116,
      121, 117, 105, 111, 112, 96, 43, 10, 0, 97, 115, 100, 102, 103, 104, 106, 107, 108,
      241, 180, 231, 0, 60, 122, 120, 99, 118, 98, 110, 109, 44, 46, 45, 0, 42, 0, 32, 0, 0,
      0, 0, 0, 0, 0, 0, 0, 0, 0, 0, 55, 56, 57, 45, 52, 53, 54, 43, 49, 50, 51, 48, 46, 0,
      0, 0, 0>>

shift_cps ==
    <<27, 33, 34, 183, 36, 37, 38, 47, 40, 41, 61, 63, 191, 8, 9, 81, 87, 69, 82, 84, 89,
      85, 73, 79, 80, 94, 42, 10, 0, 65, 83, 68, 70, 71, 72, 74, 75, 76, 209, 168, 199, 0,
      62, 90, 88, 67, 86, 66, 78, 77, 59, 58, 95, 0, 42, 0, 32, 0, 0, 0, 0, 0, 0, 0, 0, 0,
      0, 0, 0, 55, 56, 57, 45, 52, 53, 54, 43, 49, 50, 51, 48, 46, 0, 0, 0, 0>>

altgr_cps ==
    <<0, 27, 124, 64, 35, 126, 0, 0, 123, 91, 93, 125, 92, 124, 8, 9, 0, 0, 8364, 0, 0, 0,
      0, 0, 0, 0, 91, 93, 10, 0, 0, 0, 0, 0, 0, 0, 0, 0, 0, 0, 123, 125, 0, 0, 0, 0, 0, 0,
      0, 0, 0, 0, 0, 0, 0, 42, 0, 32, 0, 0, 0, 0, 0, 0, 0, 0, 0, 0, 0, 0, 55, 56, 57, 45,
      52, 53, 54, 43, 49, 50, 51, 48, 46, 0, 0, 0, 0>>

\* a list of one-character strings
chars_list(cps) == [i \in 1..Len(cps) |-> Ch(cps[i])]

normal == chars_list(normal_cps)
shift == chars_list(shift_cps)
altgr == chars_list(altgr_cps)

\* "ES-QWERTY"
ES_QWERTY == <<69, 83, 45, 81, 87, 69, 82, 84, 89>>

----------------------------------------------------------------------------
(* The inputs explored *)

Filenames == {"es-kbd.kbd", "out.kbd"}

\* elements placed at chosen indexes of a generated map: the euro sign, n with
\* tilde, y with diaeresis (255), A with macron (256), the empty string, "ab",
\* integers at and beyond both ends of the range, and a non-str non-int object
TestElems ==
    {Ch(8364), Ch(241), Ch(255), Ch(256), Str(<<>>), Str(<<97, 98>>),
     Num(255), Num(256), Num(0 - 1), Num(300), Other}

\* the valid, non-zero element a generated map holds at index i
Fill(i) == IF i % 2 = 1 THEN Num(i % 256) ELSE Ch(33 + (i % 90))

\* a map of k entries holding b at index p (p = 0: nowhere)
GenMap(k, p, b) == [i \in 1..k |-> IF i = p THEN b ELSE Fill(i)]

Lens == {0, 1, MapSize - 1} \cup (MapSize..(MapSize + MaxOver))

Spots(k) == {1, MapSize, k} \cap (1..k)

RichMaps ==
    {GenMap(k, 0, Other) : k \in Lens}
    \cup UNION {{GenMap(k, p, b) : p \in Spots(k), b \in TestElems} : k \in Lens}
    \cup {<<Num(300), Str(<<97, 98>>)>>, <<Str(<<97, 98>>), Num(300)>>}

\* short maps for the arguments next to a generated one: valid, out of range, invalid
Plain == <<Ch(97), Num(7)>>
TooBig == <<Num(300)>>
TwoChars == <<Str(<<97, 98>>)>>

\* an ASCII name of n distinct characters
AsciiName(n) == [i \in 1..n |-> 64 + i]

LongLen == NameMax + MaxNameOver

Names ==
    {AsciiName(n) : n \in {0, 1, NameMax - 1, NameMax, NameMax + 1, LongLen}}
    \cup {<<69, 241>>, [AsciiName(LongLen) EXCEPT ![NameMax + 2] = 241]}

ShortNames == {<<69, 83>>, <<69, 241>>}

Args(nm, n, s, a) ==
    [name |-> nm, normal_map |-> n, shift_map |-> s, altgr_map |-> a]

\* calls that vary the name
NameCalls ==
    {Args(nm, n, Plain, a) : nm \in Names,
                             n \in {Plain, TooBig, GenMap(MapSize + MaxOver, 0, Other)},
                             a \in {PyNone, PyList(<<>>), PyList(<<Ch(8364)>>)}}

\* calls that vary one map
MapCalls ==
    {Args(nm, n, sa[1], sa[2]) : nm \in ShortNames, n \in RichMaps,
         sa \in {<<Plain, PyNone>>, <<Plain, PyList(Plain)>>, <<TooBig, PyNone>>,
                 <<TwoChars, PyList(<<>>)>>}}
    \cup {Args(nm, n, s, a) : nm \in ShortNames, n \in {Plain, TooBig}, s \in RichMaps,
                              a \in {PyNone, PyList(TwoChars)}}
    \cup {Args(nm, n, s, PyList(a)) : nm \in ShortNames, n \in {Plain, TwoChars},
                                      s \in {Plain, TooBig}, a \in RichMaps}

\* the calls explored, each with its destination
Calls ==
    {<<"es-kbd.kbd", c>> : c \in MapCalls \cup NameCalls}
    \cup {<<"out.kbd", c>> : c \in NameCalls}

----------------------------------------------------------------------------
(* State machine: one call of create_keyboard_layout on a file system that *)
(* may already hold the destination                                        *)

NoCall ==
    [filename |-> "", name |-> <<>>, normal_map |-> <<>>, shift_map |-> <<>>,
     altgr_map |-> PyNone]

OldData == <<75, 66, 76, 89, 1>>

Init ==
    /\ pc = "start"
    /\ fs \in {[f \in Filenames |-> Absent],
                [f \in Filenames |-> IF f = "es-kbd.kbd" THEN File(OldData) ELSE Absent]}
    /\ call = NoCall
    /\ result = NoExc
    /\ stdout = <<>>

create_keyboard_layout(filename, name, normal_map, shift_map, altgr_map) ==
    /\ pc = "start"
    /\ LET packed == pack_data(name, normal_map, shift_map, altgr_map)
       IN  \E io \in IF packed.exc # NoExc THEN {[kind |-> "ok", part |-> 0]}
                                             ELSE IoOutcomes :
             LET exc == outcome(packed, io)
             IN  /\ fs' = persist(fs, filename, packed, io)
                 /\ result' = exc
                 /\ stdout' = IF exc = NoExc
                               THEN Append(stdout, printed(name, filename, packed.val))
                               ELSE stdout
    /\ call' = [filename |-> filename, name |-> name, normal_map |-> normal_map,
                shift_map |-> shift_map, altgr_map |-> altgr_map]
    /\ pc' = "done"

\* the script: if __name__ == "__main__"
Main == create_keyboard_layout("es-kbd.kbd", ES_QWERTY, normal, shift, PyList(altgr))

\* any other caller of the function
Caller ==
    \E fc \in Calls :
        create_keyboard_layout(fc[1], fc[2].name, fc[2].normal_map, fc[2].shift_map,
                               fc[2].altgr_map)

Next == Main \/ Caller

Spec == Init /\ [][Next]_vars

----------------------------------------------------------------------------
(* Vocabulary of the properties *)

Done == pc = "done"

Succeeded == pc = "done" /\ result = NoExc

\* the destination of the call, as found after it
Dest == fs[call.filename]

\* the byte at file offset o (offsets count from 0)
At(o) == Dest.data[o + 1]

\* the three error kinds of the design, read off the exception raised
ErrorKind(e) ==
    IF e.type = "UnicodeEncodeError" THEN "NameEncodingError"
    ELSE IF e.type = "ValueError" /\ e.msg \in {"Cada elemento debe ser un caracter",
                                                "Elemento invalido en el mapa"}
         THEN "InvalidElement"
    ELSE IF e.type = "ValueError" /\ e.msg \in {"Caracter excede rango de bytes (0-255)",
                                                "Valor entero fuera de rango (0-255)"}
         THEN "OutOfRange"
    ELSE e.type

ValidationKinds == {"InvalidElement", "OutOfRange", "NameEncodingError"}

\* an element that is neither a single character nor an integer
InvalidElem(x) == ~(x.kind = "int") /\ ~(x.kind = "str" /\ Len(x.chars) = 1)

\* the special-character table as the design states it
DesignTable ==
    [c \in {8364, 241, 231, 209, 199, 183, 191, 161, 180, 168} |->
        CASE c = 8364 -> 128 [] c = 241 -> 241 [] c = 231 -> 231 [] c = 209 -> 209
          [] c = 199 -> 199 [] c = 183 -> 183 [] c = 191 -> 191 [] c = 161 -> 161
          [] c = 180 -> 180 [] c = 168 -> 168]

\* the value a single character or an integer resolves to
Resolved(x) ==
    IF x.kind = "int" THEN x.n
    ELSE IF x.chars[1] \in DOMAIN DesignTable THEN DesignTable[x.chars[1]]
    ELSE x.chars[1]

OutOfRangeElem(x) == ~InvalidElem(x) /\ (Resolved(x) < 0 \/ Resolved(x) > 255)

Offending(x) == InvalidElem(x) \/ OutOfRangeElem(x)

\* the elements of the supplied maps in the order normal, shift, altgr
Elements(c) == c.normal_map \o c.shift_map \o c.altgr_map.items

HasOffender(c) == \E i \in 1..Len(Elements(c)) : Offending(Elements(c)[i])

FirstOffender(c) ==
    Elements(c)[SetMin({i \in 1..Len(Elements(c)) : Offending(Elements(c)[i])})]

ValidMap(m) == \A i \in 1..Len(m) : ~Offending(m[i])

IsAscii(name) == \A i \in 1..Len(name) : name[i] <= 127

\* the 128-byte region at offset off holds map m resolved, cut at 128 entries
\* and padded with zeros
RegionHolds(off, m) ==
    /\ Len(Dest.data) >= off + 128
    /\ \A i \in 0..127 :
         At(off + i) = IF i < Len(m) THEN Resolved(m[i + 1]) ELSE 0

\* some supplied map has an offending element at index 128 or beyond
LateOffender(c) ==
    \E m \in {c.normal_map, c.shift_map, c.altgr_map.items} :
        \E i \in 1..Len(m) : i > 128 /\ Offending(m[i])

----------------------------------------------------------------------------
(* C1 *)

\* C1: a call with an ASCII name and valid maps, of any lengths, succeeds
\* unless the I/O fails, and every successful call leaves exactly 420 bytes
\* in the destination and reports 420 bytes.
ThmC1 ==
    /\ (/\ Done
        /\ IsAscii(call.name)
        /\ ValidMap(Elements(call))
        /\ result.type # "OSError") => Succeeded
    /\ Succeeded =>
          /\ Dest.exists
          /\ Len(Dest.data) = 420
          /\ Len(stdout) = 1
          /\ stdout[1].nbytes = 420

WitC1 ==
    /\ Succeeded
    /\ Len(call.normal_map) > 128
    /\ Len(call.name) > 31
    /\ call.altgr_map = PyNone

----------------------------------------------------------------------------
(* C2 *)

\* C2: a call that ends with a validation error (InvalidElement, OutOfRange,
\* NameEncodingError) leaves every file as it was before the call: nothing is
\* created, truncated or modified.
ThmC2 == [][ErrorKind(result') \in ValidationKinds => fs' = fs]_vars

WitC2 ==
    /\ Done
    /\ ErrorKind(result) = "NameEncodingError"
    /\ Dest = File(OldData)

----------------------------------------------------------------------------
(* C3 *)

\* C3: after a successful call the regions at offsets 36, 164 and 292 hold the
\* resolved bytes of the first 128 elements of the normal, shift and altgr map,
\* zero from the map's length on, and the file is the one the same call gives
\* with every map cut to its first 128 elements.
ThmC3 ==
    Succeeded =>
        /\ RegionHolds(36, call.normal_map)
        /\ RegionHolds(164, call.shift_map)
        /\ call.altgr_map # PyNone => RegionHolds(292, call.altgr_map.items)
        /\ Dest.data = pack_data(call.name, Take(call.normal_map, 128),
                                 Take(call.shift_map, 128),
                                 [call.altgr_map EXCEPT !.items = Take(@, 128)]).val

WitC3 ==
    /\ Succeeded
    /\ Len(call.normal_map) > 128
    /\ Resolved(call.normal_map[129]) # 0
    /\ Len(call.shift_map) < 128
    /\ Len(call.shift_map) > 0

----------------------------------------------------------------------------
(* C4 *)

\* C4: after a successful call bytes 4..35 are the first min(n, 31) characters
\* of the name followed by zeros up to and including byte 35, and the normal
\* map still starts at offset 36 of a 420-byte file.
ThmC4 ==
    Succeeded =>
        /\ Len(Dest.data) = 420
        /\ \A i \in 0..31 :
             At(4 + i) = IF i < Len(call.name) /\ i < 31 THEN call.name[i + 1] ELSE 0
        /\ At(35) = 0
        /\ RegionHolds(36, call.normal_map)

WitC4 ==
    /\ Succeeded
    /\ Len(call.name) >= 40
    /\ Len(call.normal_map) > 0

----------------------------------------------------------------------------
(* C5 *)

\* C5 as stated: the call fails with OutOfRange exactly when some element of a
\* supplied map resolves outside [0, 255].
CexC5 ==
    Done =>
        (ErrorKind(result) = "OutOfRange"
            <=> \E i \in 1..Len(Elements(call)) : OutOfRangeElem(Elements(call)[i]))

\* C5 amended: the call fails with OutOfRange exactly when the first offending
\* element, in the order normal, shift, altgr, resolves outside [0, 255]; a
\* call with any out-of-range element fails; after a success every map byte
\* is the resolved value of its element and lies in [0, 255]; and a normal
\* map ['n with tilde'] gives 0xF1 at offset 36 followed by 127 zeros.
ThmC5 ==
    Done =>
        /\ ErrorKind(result) = "OutOfRange"
              <=> (HasOffender(call) /\ OutOfRangeElem(FirstOffender(call)))
        /\ (\E i \in 1..Len(Elements(call)) : OutOfRangeElem(Elements(call)[i]))
              => ErrorKind(result) \in {"OutOfRange", "InvalidElement"}
        /\ Succeeded =>
              /\ RegionHolds(36, call.normal_map)
              /\ RegionHolds(164, call.shift_map)
              /\ RegionHolds(292, call.altgr_map.items)
              /\ \A o \in 36..419 : At(o) \in 0..255
        /\ (Succeeded /\ call.normal_map = <<Ch(241)>>) =>
              /\ At(36) = 241
              /\ \A o \in 37..163 : At(o) = 0

WitC5 ==
    /\ Done
    /\ ErrorKind(result) = "OutOfRange"
    /\ result.x = Ch(256)
    /\ Len(call.normal_map) > 1
    /\ call.normal_map[1] = Ch(256)
    /\ Dest = File(OldData)

----------------------------------------------------------------------------
(* C6 *)

\* C6 as stated: the call fails with InvalidElement whenever some entry of a
\* supplied map is not a single character and not an integer.
CexC6 ==
    (Done /\ \E i \in 1..Len(Elements(call)) : InvalidElem(Elements(call)[i]))
        => ErrorKind(result) = "InvalidElement"

\* C6 amended: a call with such an entry never succeeds and leaves no output;
\* it fails with InvalidElement exactly when the first offending element, in
\* the order normal, shift, altgr, is such an entry, and with OutOfRange when
\* an out-of-range element comes first.
ThmC6 ==
    Done =>
        /\ (\E i \in 1..Len(Elements(call)) : InvalidElem(Elements(call)[i]))
              => /\ ErrorKind(result) \in {"InvalidElement", "OutOfRange"}
                 /\ stdout = <<>>
        /\ ErrorKind(result) = "InvalidElement"
              <=> (HasOffender(call) /\ InvalidElem(FirstOffender(call)))

WitC6 ==
    /\ Done
    /\ ErrorKind(result) = "InvalidElement"
    /\ result.x = Str(<<97, 98>>)
    /\ ~Dest.exists

----------------------------------------------------------------------------
(* C7 *)

\* C7: with altgr omitted and a valid name, normal and shift map, the call
\* succeeds unless the I/O fails, bytes 292..419 are zero, and bytes 0..291
\* are those any other altgr argument gives.
ThmC7 ==
    (/\ Done
     /\ call.altgr_map = PyNone
     /\ IsAscii(call.name)
     /\ ValidMap(call.normal_map)
     /\ ValidMap(call.shift_map)
     /\ result.type # "OSError") =>
        /\ Succeeded
        /\ Len(Dest.data) = 420
        /\ \A o \in 292..419 : At(o) = 0
        /\ \A a \in {PyList(<<>>), PyList(Plain), PyList(altgr)} :
             SubSeq(Dest.data, 1, 292) =
                 SubSeq(pack_data(call.name, call.normal_map, call.shift_map, a).val,
                        1, 292)

WitC7 ==
    /\ Succeeded
    /\ call.altgr_map = PyNone
    /\ Len(call.shift_map) > 128

----------------------------------------------------------------------------
(* C8 *)

\* C8: after every successful call bytes 0..3 are 0x59, 0x4C, 0x42, 0x4B, the
\* little-endian bytes of 0x4B424C59.
ThmC8 ==
    Succeeded =>
        /\ Len(Dest.data) >= 4
        /\ SubSeq(Dest.data, 1, 4) = <<89, 76, 66, 75>>

WitC8 ==
    /\ Succeeded
    /\ call.name = ES_QWERTY
    /\ call.normal_map = normal

----------------------------------------------------------------------------
(* C9 *)

\* the call with the normal and the shift map exchanged
Swapped(c) == [c EXCEPT !.normal_map = c.shift_map, !.shift_map = c.normal_map]

\* a map element failed, and just one of normal and shift holds offenders
OneMapOffends(c) ==
    /\ ValidMap(c.normal_map) # ValidMap(c.shift_map)
    /\ ValidMap(c.altgr_map.items)

\* C9 as stated: two failing calls that differ only in the map that holds the
\* offending element end with distinguishable errors.
CexC9 ==
    (Done /\ OneMapOffends(call)) =>
        pack_data(call.name, call.shift_map, call.normal_map, call.altgr_map).exc
            # result

\* C9 amended: the error of a failed element check carries the offending
\* element and the violated constraint and nothing else: it is the error of
\* a call whose normal map is that element alone, so it names neither the map
\* nor the position, and exchanging the maps leaves the error the same.
ThmC9 ==
    (Done /\ HasOffender(call)) =>
        /\ result.x = FirstOffender(call)
        /\ result = pack_data(<<>>, <<FirstOffender(call)>>, <<>>, PyNone).exc
        /\ OneMapOffends(call) =>
             pack_data(call.name, call.shift_map, call.normal_map,
                       call.altgr_map).exc = result

WitC9 ==
    /\ Done
    /\ OneMapOffends(call)
    /\ ValidMap(call.normal_map)
    /\ Len(call.shift_map) > 128
    /\ Offending(call.shift_map[128])
    /\ ErrorKind(result) = "OutOfRange"

----------------------------------------------------------------------------
(* C10 *)

\* C10: a call with an invalid or out-of-range element at index 128 or beyond
\* of a supplied map fails with a validation error and leaves every file and
\* the output as they were, also when the first 128 entries are all valid.
ThmC10 ==
    [][LateOffender(call') =>
          /\ ErrorKind(result') \in {"InvalidElement", "OutOfRange"}
          /\ fs' = fs
          /\ stdout' = stdout]_vars

WitC10 ==
    /\ Done
    /\ LateOffender(call)
    /\ ValidMap(Take(call.normal_map, 128))
    /\ ValidMap(Take(call.shift_map, 128))
    /\ ValidMap(Take(call.altgr_map.items, 128))
    /\ IsAscii(call.name)
    /\ result # NoExc

====
